---- MODULE Spec2Model ----
(***************************************************************************)
(* Model of scrape_gh: the recursive related-item traversal                *)
(* (extract.py, extract_content_with_related), the single-artifact fetcher *)
(* (extract_content, extract_issue, extract_pr, retry_on_error), the       *)
(* formatter (format_for_llm) and the command-line driver (cli.py).        *)
(*                                                                         *)
(* Python's None is the empty sequence and a present value x is <<x>>, so  *)
(* that "content is None" and "content is a document" stay comparable.     *)
(***************************************************************************)
EXTENDS Integers, Sequences, FiniteSets, TLC

\* ------------------------------------------------------------------ bounds
\* max_depth arguments of a top-level call range over -1 .. MaxDepth
MaxDepth == 2
\* related items over all records fetched during one top-level call
MaxRefs == 4
\* a fetched record carries at most MaxRel related items: half of them
MaxRel == MaxRefs \div 2

None == <<>>
Some(x) == <<x>>

\* ------------------------------------------------------------------- URLs
\* A URL is modelled by the three facts extract_content reads off it, and a
\* number that tells apart URLs of equal shape.
Url(g, p, i, n) == [github |-> g, pull |-> p, issues |-> i, n |-> n]

IssueUrl(n) == Url(TRUE, FALSE, TRUE, n)
PullUrl(n) == Url(TRUE, TRUE, FALSE, n)
CommitUrl(n) == Url(TRUE, FALSE, FALSE, n)

\* the URLs a run can mention: issues, pull requests, and a commit URL, which
\* extract_content rejects
URLs == {IssueUrl(1), PullUrl(2), IssueUrl(3), PullUrl(4), CommitUrl(5)}

\* the URLs a top-level call is made on: an issue that pages refer to, a pull
\* request that no page refers to, and the commit URL
RootURLs == {IssueUrl(1), PullUrl(4), CommitUrl(5)}

\* ---------------------------------------------------------------- records
\* RelatedItem: type and url are independent fields (the extraction fills both
\* in); number and title only appear in the reference text and are left out.
Item(type, url) == [type |-> type, url |-> url]

\* the related items a page can carry: an issue, which pages list under its
\* own type and also as a PR, a pull request, a second issue and a commit
RelatedItems ==
  {Item("issue", IssueUrl(1)), Item("PR", IssueUrl(1)), Item("PR", PullUrl(2)),
   Item("issue", IssueUrl(3)), Item("commit", CommitUrl(5))}

RelatedLists == UNION {[1..n -> RelatedItems] : n \in 0..MaxRel}

\* GitHubIssue / GitHubPR, reduced to the fields the traversal reads
Record(kind, items) == [kind |-> kind, related_items |-> items]

\* include_types: None (argument absent) or a list of type names
IncludeTypes == {None, Some(<<>>), Some(<<"issue">>), Some(<<"PR", "commit">>)}

VARIABLES
  pc,            \* "idle", "running", "returned", "raised": the top-level call
  args,          \* the arguments of the top-level call
  visited_urls,  \* the set shared by reference through the call tree
  stack,         \* activation records of extract_content_with_related
  result,        \* value returned to the top-level caller (None or a document)
  raised,        \* class of the exception the top-level caller sees ("" if none)
  fetchLog,      \* history: calls of extract_content, in order
  callLog,       \* history: entered calls of extract_content_with_related
  itemLog,       \* history: related items the loop of line 258 has taken up
  recOf,         \* history: the record each URL's fetch returned
  earlier,       \* history: the top-level calls this process made before
  \* one call of extract_content, with the retry wrapper seen step by step
  fpc,            \* "idle", "try" (inside wrapper's loop), "done"
  furl,           \* the url argument
  attempt,        \* loop variable of line 46
  delay,          \* lines 43 and 59
  last_exception, \* lines 44 and 50
  outcome,        \* what the caller of extract_content gets (None until then)
  attemptLog,     \* history: each invocation of the decorated function
  sleeps,         \* history: the arguments of time.sleep
  \* one run of the command-line driver (cli.py, main)
  cpc,            \* "idle", "extract", "convert", "emit", "exited"
  cargs,          \* the parsed command line
  rootFetch,      \* history: class of the exception of the root fetch ("" if none)
  output_data,    \* lines 26, 34, 37
  output_str,     \* lines 41, 43
  failure,        \* class of the exception caught by main's handlers ("" if none)
  exit_code       \* the process's exit status (None while it runs)

travVars == <<pc, args, visited_urls, stack, result, raised, fetchLog, callLog,
              itemLog, recOf, earlier>>

fetchVars == <<fpc, furl, attempt, delay, last_exception, outcome, attemptLog, sleeps>>

cliVars == <<cpc, cargs, rootFetch, output_data, output_str, failure, exit_code>>

vars == <<pc, args, visited_urls, stack, result, raised, fetchLog, callLog,
          itemLog, recOf, earlier, fpc, furl, attempt, delay, last_exception, outcome,
          attemptLog, sleeps, cpc, cargs, rootFetch, output_data, output_str,
          failure, exit_code>>

\* ------------------------------------------------------------- formatting
NoNote == ""
VisitedNote == "[already visited]"
ErrorNote == "[error]"

\* f"{item.type} {item.number}: {item.title or ''} ({item.url})" plus a suffix
Reference(item, note) == [type |-> item.type, url |-> item.url, note |-> note]

Entry(item, note, content) == [reference |-> Reference(item, note), content |-> content]

format_for_llm(content) ==
  [type |-> IF content.kind = "issue" THEN "issue" ELSE "pull_request",
   related_items |-> [k \in 1..Len(content.related_items) |->
                        Entry(content.related_items[k], NoNote, None)]]

\* ------------------------------------------------------------ the fetcher
Ok(rec) == [exc |-> "", value |-> Some(rec)]
Raises(cls) == [exc |-> cls, value |-> None]

\* what the decorated extract_issue / extract_pr hands back for a url: the
\* record of the first successful attempt, or the wrapper's FirecrawlError
Replies(url, room) ==
  {Raises("FirecrawlError")} \cup
  {Ok(Record(IF url.pull THEN "PR" ELSE "issue", items)) :
     items \in {l \in RelatedLists : Len(l) <= room}}

extract_content(url, reply) ==
  IF ~url.github THEN Raises("ValueError")
  ELSE IF url.pull THEN reply
  ELSE IF url.issues THEN reply
  ELSE Raises("ValueError")

\* ---------------------------------------------------------- the traversal
Frame(url, max_depth, include_types) ==
  [url |-> url, max_depth |-> max_depth, include_types |-> include_types,
   at |-> "enter", content |-> None, formatted |-> None, i |-> 1,
   related_with_content |-> <<>>]

Top == stack[Len(stack)]
Callers == SubSeq(stack, 1, Len(stack) - 1)
CurrentItem(f) == f.content[1].related_items[f.i]

RECURSIVE SumLen(_)
SumLen(S) ==
  IF S = {} THEN 0
  ELSE LET u == CHOOSE x \in S : TRUE
       IN Len(recOf[u].related_items) + SumLen(S \ {u})

RefsUsed == SumLen(DOMAIN recOf)

\* line 260: "if include_types and item.type not in include_types"
Truthy(include_types) == include_types # None /\ include_types[1] # <<>>
Filtered(include_types, item) ==
  /\ Truthy(include_types)
  /\ \A k \in 1..Len(include_types[1]) : include_types[1][k] # item.type

\* the membership test left out
NeverVisited(url, visited) == FALSE

\* lines 242 and 268: "in visited_urls"
AlreadyVisited(url, visited) == url \in visited

\* line 245 left out: the URL is never recorded
MarkVisitedForgotten(visited, url) == visited

\* only the first URL of a call tree is recorded
MarkVisitedRootOnly(visited, url) == IF visited = {} THEN {url} ELSE visited

\* line 245
MarkVisited(visited, url) == visited \cup {url}

\* the filtered reference is recorded as visited
AfterFilteredMarks(visited, url) == visited \cup {url}

\* lines 260-265: the branch ends in "continue" and never touches the set
AfterFiltered(visited, url) == visited

\* the filtered item is dropped from the list
DropFiltered(related_with_content, item) == related_with_content

\* lines 261-265: the filtered item stays in the list, without content
AppendFiltered(related_with_content, item) ==
  Append(related_with_content, Entry(item, NoNote, None))

\* lines 269-273
AppendVisited(related_with_content, item) ==
  Append(related_with_content, Entry(item, VisitedNote, None))

\* the test spelled "== 0": a negative budget goes on expanding
DepthExhaustedOnlyAtZero(max_depth) == max_depth = 0

\* line 252
DepthExhausted(max_depth) == max_depth <= 0

\* the budget handed down undiminished
ChildDepthKept(max_depth) == max_depth

\* line 279
ChildDepth(max_depth) == max_depth - 1

\* the recursive call made without include_types
ChildFilterDropped(include_types) == None

\* line 280: the filter goes down unchanged
ChildFilter(include_types) == include_types

\* the loop stays on the same related item
NextItemStuck(i) == i

\* the for loop of line 258 moves to the next related item
NextItem(i) == i + 1

\* lines 284-287: the caller appends the returned value and goes on
AfterReturn(parent, val) ==
  [parent EXCEPT !.related_with_content =
                    Append(@, Entry(CurrentItem(parent), NoNote, val)),
                 !.i = NextItem(@)]

\* the URL whose fetch failed is taken out of the set again
AfterFailureForgets(visited, url) == visited \ {url}

\* lines 248 and 288-293: neither the raise nor the handler touches the set
AfterFailure(visited, url) == visited

\* the handler records the error and leaves the loop
AfterRaiseBreaks(parent, cls) ==
  [parent EXCEPT !.related_with_content =
                    Append(@, Entry(CurrentItem(parent), ErrorNote, None)),
                 !.i = Len(parent.content[1].related_items) + 1]

\* lines 288-293: the caller's handler
AfterRaise(parent, cls) ==
  [parent EXCEPT !.related_with_content =
                    Append(@, Entry(CurrentItem(parent), ErrorNote, None)),
                 !.i = NextItem(@)]

\* a call returns val to its caller: the parent frame, or the top-level caller
Return(val) ==
  IF Callers = <<>>
  THEN /\ pc' = "returned"
       /\ result' = val
       /\ stack' = <<>>
       /\ UNCHANGED raised
  ELSE /\ stack' = [Callers EXCEPT ![Len(Callers)] = AfterReturn(@, val)]
       /\ UNCHANGED <<pc, result, raised>>

\* no except clause around the recursive call: the exception leaves every caller
RaiseUncaught(cls) ==
  /\ pc' = "raised"
  /\ raised' = cls
  /\ stack' = <<>>
  /\ UNCHANGED result

\* a call raises: into the parent's except clause, or out of the top-level call
Raise(cls) ==
  IF Callers = <<>>
  THEN /\ pc' = "raised"
       /\ raised' = cls
       /\ stack' = <<>>
       /\ UNCHANGED result
  ELSE /\ stack' = [Callers EXCEPT ![Len(Callers)] = AfterRaise(@, cls)]
       /\ UNCHANGED <<pc, result, raised>>

\* the set of an earlier call is taken up again (one set made once, as a
\* mutable default argument would be)
StartVisitedShared(given, left) == IF given = None THEN left ELSE given[1]

\* lines 239-240: without a set from the caller the call makes a new one;
\* left is what the call before left behind
StartVisited(given, left) == IF given = None THEN {} ELSE given[1]

Init ==
  /\ pc = "idle"
  /\ args = [url |-> IssueUrl(1), max_depth |-> 0, include_types |-> None,
             visited_urls |-> None]
  /\ visited_urls = {}
  /\ stack = <<>>
  /\ result = None
  /\ raised = ""
  /\ fetchLog = <<>>
  /\ callLog = <<>>
  /\ itemLog = <<>>
  /\ recOf = <<>>
  /\ earlier = <<>>
  /\ fpc = "idle"
  /\ furl = IssueUrl(1)
  /\ attempt = 0
  /\ delay = 0
  /\ last_exception = None
  /\ outcome = None
  /\ attemptLog = <<>>
  /\ sleeps = <<>>
  /\ cpc = "idle"
  /\ cargs = [url |-> IssueUrl(1), depth |-> 0, raw |-> FALSE, format |-> "json",
              types |-> None, output |-> FALSE]
  /\ rootFetch = ""
  /\ output_data = None
  /\ output_str = None
  /\ failure = ""
  /\ exit_code = None

\* the top-level caller calls extract_content_with_related (cli.py line 26, or
\* any caller, who may also hand in a visited set of its own)
Call ==
  /\ pc = "idle"
  /\ \E url \in RootURLs, d \in (-1..MaxDepth) \cup {5}, t \in IncludeTypes :
     \E v \in {None, Some({url})} :
       /\ args' = [url |-> url, max_depth |-> d, include_types |-> t,
                   visited_urls |-> v]
       /\ visited_urls' = StartVisited(v, visited_urls)
       /\ stack' = <<Frame(url, d, t)>>
  /\ pc' = "running"
  /\ UNCHANGED <<result, raised, fetchLog, callLog, itemLog, recOf>>
  /\ UNCHANGED earlier
  /\ UNCHANGED fetchVars
  /\ UNCHANGED cliVars

\* lines 242-245
Enter ==
  /\ pc = "running" /\ Top.at = "enter"
  /\ callLog' = Append(callLog, [url |-> Top.url, max_depth |-> Top.max_depth,
                                 include_types |-> Top.include_types,
                                 level |-> Len(stack) - 1,
                                 visited |-> Top.url \in visited_urls])
  /\ IF AlreadyVisited(Top.url, visited_urls)
     THEN /\ Return(None)
          /\ UNCHANGED visited_urls
     ELSE /\ visited_urls' = MarkVisited(visited_urls, Top.url)
          /\ stack' = [stack EXCEPT ![Len(stack)].at = "fetch"]
          /\ UNCHANGED <<pc, result, raised>>
  /\ UNCHANGED <<args, fetchLog, itemLog, recOf>>
  /\ UNCHANGED earlier
  /\ UNCHANGED fetchVars
  /\ UNCHANGED cliVars

\* line 248 returns a record; lines 249-253
FetchReturns ==
  /\ pc = "running" /\ Top.at = "fetch"
  /\ \E reply \in Replies(Top.url, MaxRefs - RefsUsed) :
       LET out == extract_content(Top.url, reply) IN
       /\ out.exc = ""
       /\ fetchLog' = Append(fetchLog, [url |-> Top.url, ok |-> TRUE,
                                        level |-> Len(stack) - 1,
                                        visited |-> Top.url \in visited_urls])
       /\ recOf' = (Top.url :> out.value[1]) @@ recOf
       /\ IF DepthExhausted(Top.max_depth)
          THEN Return(Some(format_for_llm(out.value[1])))
          ELSE /\ stack' = [stack EXCEPT ![Len(stack)] =
                              [@ EXCEPT !.at = "loop", !.content = out.value,
                                        !.formatted = Some(format_for_llm(out.value[1]))]]
               /\ UNCHANGED <<pc, result, raised>>
  /\ UNCHANGED <<args, visited_urls, callLog, itemLog>>
  /\ UNCHANGED earlier
  /\ UNCHANGED fetchVars
  /\ UNCHANGED cliVars

\* line 248 raises: nothing in the function catches it
FetchRaises ==
  /\ pc = "running" /\ Top.at = "fetch"
  /\ \E reply \in Replies(Top.url, 0) :
       LET out == extract_content(Top.url, reply) IN
       /\ out.exc # ""
       /\ fetchLog' = Append(fetchLog, [url |-> Top.url, ok |-> FALSE,
                                        level |-> Len(stack) - 1,
                                        visited |-> Top.url \in visited_urls])
       /\ Raise(out.exc)
  /\ visited_urls' = AfterFailure(visited_urls, Top.url)
  /\ UNCHANGED <<args, callLog, itemLog, recOf>>
  /\ UNCHANGED earlier
  /\ UNCHANGED fetchVars
  /\ UNCHANGED cliVars

InLoop ==
  /\ pc = "running" /\ Top.at = "loop"
  /\ Top.i <= Len(Top.content[1].related_items)

\* history of the loop: which item of which node, whether its URL was in
\* visited_urls at that moment, and the branch the loop took
Taken(branch) ==
  Append(itemLog, [owner |-> Top.url, k |-> Top.i, item |-> CurrentItem(Top),
                   seen |-> CurrentItem(Top).url \in visited_urls,
                   fetches |-> Len(fetchLog), branch |-> branch])

\* lines 260-265
SkipFiltered ==
  /\ InLoop
  /\ Filtered(Top.include_types, CurrentItem(Top))
  /\ stack' = [stack EXCEPT ![Len(stack)] =
                 [@ EXCEPT !.related_with_content = AppendFiltered(@, CurrentItem(Top)),
                           !.i = NextItem(@)]]
  /\ itemLog' = Taken("filtered")
  /\ visited_urls' = AfterFiltered(visited_urls, CurrentItem(Top).url)
  /\ UNCHANGED <<pc, args, result, raised, fetchLog, callLog, recOf>>
  /\ UNCHANGED earlier
  /\ UNCHANGED fetchVars
  /\ UNCHANGED cliVars

\* lines 268-273
SkipVisited ==
  /\ InLoop
  /\ ~Filtered(Top.include_types, CurrentItem(Top))
  /\ AlreadyVisited(CurrentItem(Top).url, visited_urls)
  /\ stack' = [stack EXCEPT ![Len(stack)] =
                 [@ EXCEPT !.related_with_content = AppendVisited(@, CurrentItem(Top)),
                           !.i = NextItem(@)]]
  /\ itemLog' = Taken("visited")
  /\ UNCHANGED <<pc, args, visited_urls, result, raised, fetchLog, callLog, recOf>>
  /\ UNCHANGED earlier
  /\ UNCHANGED fetchVars
  /\ UNCHANGED cliVars

\* lines 275-282: the recursive call
Recurse ==
  /\ InLoop
  /\ ~Filtered(Top.include_types, CurrentItem(Top))
  /\ ~AlreadyVisited(CurrentItem(Top).url, visited_urls)
  /\ stack' = Append(stack, Frame(CurrentItem(Top).url, ChildDepth(Top.max_depth),
                                  ChildFilter(Top.include_types)))
  /\ itemLog' = Taken("call")
  /\ UNCHANGED <<pc, args, visited_urls, result, raised, fetchLog, callLog, recOf>>
  /\ UNCHANGED earlier
  /\ UNCHANGED fetchVars
  /\ UNCHANGED cliVars

\* lines 295-298
Finish ==
  /\ pc = "running" /\ Top.at = "loop"
  /\ Top.i > Len(Top.content[1].related_items)
  /\ Return(Some([Top.formatted[1] EXCEPT !.related_items = Top.related_with_content]))
  /\ UNCHANGED <<args, visited_urls, fetchLog, callLog, itemLog, recOf>>
  /\ UNCHANGED earlier
  /\ UNCHANGED fetchVars
  /\ UNCHANGED cliVars

\* a second top-level call in the same process, on the URL of the first and
\* without a visited set, after the first has returned or raised
CallAgain ==
  /\ pc \in {"returned", "raised"}
  /\ earlier = <<>>
  /\ earlier' = <<[url |-> args.url,
                   fetched |-> \E k \in 1..Len(fetchLog) : fetchLog[k].url = args.url,
                   returned |-> pc = "returned" /\ result # None,
                   left_others |-> visited_urls \ {args.url} # {}]>>
  /\ \E d \in (-1..MaxDepth) \cup {5}, t \in IncludeTypes :
       /\ args' = [url |-> args.url, max_depth |-> d, include_types |-> t,
                   visited_urls |-> None]
       /\ stack' = <<Frame(args.url, d, t)>>
  /\ visited_urls' = StartVisited(None, visited_urls)
  /\ pc' = "running"
  /\ result' = None
  /\ raised' = ""
  /\ fetchLog' = <<>>
  /\ callLog' = <<>>
  /\ itemLog' = <<>>
  /\ recOf' = <<>>
  /\ UNCHANGED fetchVars
  /\ UNCHANGED cliVars

Next ==
  \/ Call
  \/ Enter
  \/ FetchReturns
  \/ FetchRaises
  \/ SkipFiltered
  \/ SkipVisited
  \/ Recurse
  \/ Finish

Spec == Init /\ [][Next]_vars

\* the steps of a call under way. The traversal is one synchronous thread
\* (no suspension points): a statement that can run does run, and a fetch
\* returns or fails.
Step ==
  \/ Enter
  \/ FetchReturns
  \/ FetchRaises
  \/ SkipFiltered
  \/ SkipVisited
  \/ Recurse
  \/ Finish

LiveSpec == Init /\ [][Next]_vars /\ WF_vars(Step)

\* two top-level calls in one process
TwiceNext ==
  \/ Call
  \/ CallAgain
  \/ Enter
  \/ FetchReturns
  \/ FetchRaises
  \/ SkipFiltered
  \/ SkipVisited
  \/ Recurse
  \/ Finish

TwiceSpec == Init /\ [][TwiceNext]_vars

\* ------------------------------------------------- one fetch, with retries
\* retry_on_error's defaults, with which both extract_issue and extract_pr
\* are decorated.
max_retries == 3
initial_delay == 1

\* The substrings of str(e) that the except clauses of extract_issue and
\* extract_pr look for.
Codes == {"500", "429", "403", "404"}

\* The codes a URL's text contains: the issue or pull number is part of it.
UrlCodes(url) ==
  IF url.n = 500 THEN {"500"}
  ELSE IF url.n = 429 THEN {"429"}
  ELSE IF url.n = 403 THEN {"403"}
  ELSE IF url.n = 404 THEN {"404"}
  ELSE {}

\* URLs handed to extract_content in the fetch machine: issues and pulls
\* (one whose number reads as a status code), and three that are neither.
FetchURLs == {IssueUrl(1), PullUrl(2), IssueUrl(404), CommitUrl(5),
              Url(FALSE, TRUE, FALSE, 6), Url(FALSE, FALSE, TRUE, 7)}

\* The texts an exception of a collaborator may carry, by the codes in them.
CodeSets == {{}, {"500"}, {"429"}, {"403"}, {"404"}, {"404", "500"}}

\* What app.extract may do in one invocation: return a dict with "data"
\* that validates, return one whose data the model class rejects, return
\* nothing usable, or raise.
ExtractReplies(url) ==
  {[kind |-> "data", rec |-> Record(IF url.pull THEN "PR" ELSE "issue", items), codes |-> {}] :
      items \in {<<>>, <<Item("issue", IssueUrl(1))>>}}
    \cup {[kind |-> "bad_data", rec |-> Record("issue", <<>>), codes |-> c] : c \in {{}, {"403"}}}
    \cup {[kind |-> "empty", rec |-> Record("issue", <<>>), codes |-> {}]}
    \cup {[kind |-> "raise", rec |-> Record("issue", <<>>), codes |-> c] : c \in CodeSets}

\* What the GET of get_da_diff may do: answer ok, or answer not ok with a
\* body carrying some codes.  "unused" stands for no GET at all.
DiffReplies ==
  {[kind |-> "ok", codes |-> {}]}
    \cup {[kind |-> "not_ok", codes |-> c] : c \in {{}, {"404"}}}

NoDiff == [kind |-> "unused", codes |-> {}]

FirecrawlError(kind) == [cls |-> "FirecrawlError", kind |-> kind]

\* The except clause shared by extract_issue and extract_pr: the first code
\* found in str(e) picks the message.
Classify(codes) ==
  IF "500" \in codes THEN FirecrawlError("service_error")
  ELSE IF "429" \in codes THEN FirecrawlError("rate_limit")
  ELSE IF "403" \in codes THEN FirecrawlError("forbidden")
  ELSE IF "404" \in codes THEN FirecrawlError("not_found")
  ELSE FirecrawlError("generic")

FuncReturns(rec) == [ok |-> TRUE, rec |-> rec, exc |-> FirecrawlError("")]
FuncRaises(exc) == [ok |-> FALSE, rec |-> Record("issue", <<>>), exc |-> exc]

\* The body of extract_issue for one invocation.
extract_issue(url, reply) ==
  IF reply.kind = "raise" THEN FuncRaises(Classify(reply.codes))
  ELSE IF reply.kind = "empty" THEN FuncRaises(Classify(UrlCodes(url)))
  ELSE IF reply.kind = "bad_data" THEN FuncRaises(Classify(reply.codes))
  ELSE FuncReturns(reply.rec)

\* The body of extract_pr for one invocation: the diff is fetched inside
\* the same try, after the response was found usable.
extract_pr(url, reply, diff) ==
  IF reply.kind = "raise" THEN FuncRaises(Classify(reply.codes))
  ELSE IF reply.kind = "empty" THEN FuncRaises(Classify(UrlCodes(url)))
  ELSE IF diff.kind = "not_ok" THEN FuncRaises(Classify(diff.codes))
  ELSE IF reply.kind = "bad_data" THEN FuncRaises(Classify(reply.codes))
  ELSE FuncReturns(reply.rec)

\* Whether an invocation of the decorated function gets as far as the GET.
ReachesDiff(url, reply) == url.pull /\ reply.kind \in {"data", "bad_data"}

func(url, reply, diff) ==
  IF url.pull THEN extract_pr(url, reply, diff) ELSE extract_issue(url, reply)

\* Line 51 as a budget one short.
OutOfRetriesEarly(a) == a = max_retries - 1

\* Line 51: the failure of the last attempt leaves the loop.
OutOfRetries(a) == a = max_retries

\* The checks of lines 215 and 219-224 left out: every URL is handed on.
DispatchesAnything(url) == TRUE

\* Whether extract_content hands the URL to one of the two functions.
Dispatches(url) == extract_content(url, Ok(Record("issue", <<>>))).exc = ""

\* extract_content up to the call of the decorated function.
CallExtractContent ==
  /\ fpc \in {"idle", "done"}
  /\ \E url \in FetchURLs :
       /\ furl' = url
       /\ IF ~Dispatches(url)
            THEN /\ fpc' = "done"
                 /\ outcome' = Some(Raises("ValueError"))
                 /\ UNCHANGED <<attempt, delay>>
            ELSE /\ fpc' = "try"
                 /\ outcome' = None
                 /\ attempt' = 0
                 /\ delay' = initial_delay
  /\ last_exception' = None
  /\ attemptLog' = <<>>
  /\ sleeps' = <<>>
  /\ UNCHANGED travVars
  /\ UNCHANGED cliVars

\* One pass of the loop in wrapper whose invocation of func returns.
AttemptSucceeds ==
  /\ fpc = "try"
  /\ \E reply \in ExtractReplies(furl) :
     \E diff \in IF ReachesDiff(furl, reply) THEN DiffReplies ELSE {NoDiff} :
       LET r == func(furl, reply, diff) IN
         /\ r.ok
         /\ attemptLog' = Append(attemptLog, [reply |-> reply, diff |-> diff, out |-> r])
         /\ outcome' = Some(Ok(r.rec))
         /\ fpc' = "done"
  /\ UNCHANGED <<furl, attempt, delay, last_exception, sleeps>>
  /\ UNCHANGED travVars
  /\ UNCHANGED cliVars

\* One pass whose invocation raises, with attempts left: sleep and double.
AttemptFails ==
  /\ fpc = "try"
  /\ ~OutOfRetries(attempt)
  /\ \E reply \in ExtractReplies(furl) :
     \E diff \in IF ReachesDiff(furl, reply) THEN DiffReplies ELSE {NoDiff} :
       LET r == func(furl, reply, diff) IN
         /\ ~r.ok
         /\ attemptLog' = Append(attemptLog, [reply |-> reply, diff |-> diff, out |-> r])
         /\ last_exception' = Some(r.exc)
  /\ sleeps' = Append(sleeps, delay)
  /\ delay' = delay * 2
  /\ attempt' = attempt + 1
  /\ UNCHANGED <<fpc, furl, outcome>>
  /\ UNCHANGED travVars
  /\ UNCHANGED cliVars

\* The pass whose invocation raises with no attempt left: break, then the
\* raise of line 62.
AttemptFailsLast ==
  /\ fpc = "try"
  /\ OutOfRetries(attempt)
  /\ \E reply \in ExtractReplies(furl) :
     \E diff \in IF ReachesDiff(furl, reply) THEN DiffReplies ELSE {NoDiff} :
       LET r == func(furl, reply, diff) IN
         /\ ~r.ok
         /\ attemptLog' = Append(attemptLog, [reply |-> reply, diff |-> diff, out |-> r])
         /\ last_exception' = Some(r.exc)
  /\ outcome' = Some(Raises("FirecrawlError"))
  /\ fpc' = "done"
  /\ UNCHANGED <<furl, attempt, delay, sleeps>>
  /\ UNCHANGED travVars
  /\ UNCHANGED cliVars

FetchNext ==
  \/ CallExtractContent
  \/ AttemptSucceeds
  \/ AttemptFails
  \/ AttemptFailsLast

FetchSpec == Init /\ [][FetchNext]_vars

\* ------------------------------------------------ the command-line driver
\* Keys of the dict format_for_llm builds (lines 311-328 and 331-356).
FormattedKeys(kind) ==
  {"type", "title", "number", "state", "author", "created_at", "conversation",
   "labels", "related_items"}
    \cup (IF kind = "issue" THEN {} ELSE {"merged_at", "commits", "file_changes"})

\* Keys of model_dump(): the fields of GitHubIssue / GitHubPR.
RawKeys(kind) ==
  {"title", "number", "state", "author", "created_at", "updated_at", "comments",
   "labels", "related_items"}
    \cup (IF kind = "issue" THEN {} ELSE {"merged_at", "commits", "file_changes"})

\* What main hands to the renderers: the keys of the dict, the value under
\* "type" ("" when the key is absent) and the shape of file_changes.
Doc(keys, type, file_changes) == [keys |-> keys, type |-> type, file_changes |-> file_changes]

\* file_changes is the text of the diff (resp.text): a string, maybe empty.
FileChanges(kind) == IF kind = "issue" THEN {"absent"} ELSE {"text", "empty"}

Formatted(rec, fc) == Doc(FormattedKeys(rec.kind), format_for_llm(rec).type, fc)
model_dump(rec, fc) == Doc(RawKeys(rec.kind), "", fc)

\* The keys _convert_issue_to_markdown and _convert_pr_to_markdown read, in
\* the order they read them.
IssueReads == <<"number", "title", "state", "author", "created_at", "description",
                "labels", "conversation", "related_items">>
PrReads == <<"number", "title", "state", "author", "created_at", "merged_at",
             "description", "labels", "conversation", "commits", "file_changes",
             "related_items">>

Missing(reads, keys) == {k \in 1..Len(reads) : reads[k] \notin keys}

\* convert_to_markdown: the class of the exception it raises, "" if it
\* returns.  A key that is absent raises KeyError at its read; the loop of
\* line 125 indexes each element of file_changes with a string, which on the
\* characters of a non-empty str raises TypeError.
convert_to_markdown(data) ==
  IF "type" \notin data.keys THEN "KeyError"
  ELSE LET reads == IF data.type = "issue" THEN IssueReads ELSE PrReads
           fc == CHOOSE k \in 1..Len(reads) + 1 :
                   k = Len(reads) + 1 \/ reads[k] = "file_changes"
       IN IF \E k \in Missing(reads, data.keys) : k <= fc THEN "KeyError"
          ELSE IF fc <= Len(reads) /\ data.file_changes = "text" THEN "TypeError"
          ELSE IF Missing(reads, data.keys) # {} THEN "KeyError"
          ELSE ""

\* Both errors that reach the user share exit code 1.
ExitCodeShared(cls) ==
  IF cls \in {"FirecrawlError", "ValueError"} THEN 1 ELSE 3

\* The handlers of lines 53-63, tried in order.
ExitCode(cls) ==
  IF cls = "FirecrawlError" THEN 2
  ELSE IF cls = "ValueError" THEN 1
  ELSE 3

CliURLs == {IssueUrl(1), PullUrl(2), CommitUrl(5), Url(FALSE, FALSE, TRUE, 7)}

\* argparse: --depth takes any int, --types one or more of the three names
CliDepths == {-1, 0, 1, MaxDepth}
CliTypes == {None, Some(<<"issue">>)}

\* What the root fetch may do: what the fetch layer hands back, or an
\* exception that is neither of the two classes (say an OSError of the
\* progress print inside the retry wrapper, line 55).
CliReplies(url) == Replies(url, 1) \cup {Raises("OSError")}

\* main up to the try of line 21
Main ==
  /\ cpc \in {"idle", "exited"}
  /\ \E url \in CliURLs, d \in CliDepths, raw \in BOOLEAN,
        format \in {"json", "markdown"}, t \in CliTypes, o \in BOOLEAN :
       cargs' = [url |-> url, depth |-> d, raw |-> raw, format |-> format,
                 types |-> t, output |-> o]
  /\ cpc' = "extract"
  /\ rootFetch' = ""
  /\ output_data' = None
  /\ output_str' = None
  /\ failure' = ""
  /\ exit_code' = None
  /\ UNCHANGED travVars
  /\ UNCHANGED fetchVars

\* lines 26 / 29 raise: the root fetch failed; one of the handlers exits
RootFetchRaises ==
  /\ cpc = "extract"
  /\ \E reply \in CliReplies(cargs.url) :
       LET out == extract_content(cargs.url, reply) IN
       /\ out.exc # ""
       /\ rootFetch' = out.exc
       /\ failure' = out.exc
       /\ exit_code' = Some(ExitCode(out.exc))
  /\ cpc' = "exited"
  /\ UNCHANGED <<cargs, output_data, output_str>>
  /\ UNCHANGED travVars
  /\ UNCHANGED fetchVars

\* lines 23-37: the root fetch returned; output_data by depth and --raw
RootFetchReturns ==
  /\ cpc = "extract"
  /\ \E reply \in CliReplies(cargs.url) :
       LET out == extract_content(cargs.url, reply) IN
       /\ out.exc = ""
       /\ \E fc \in FileChanges(out.value[1].kind) :
            output_data' =
              Some(IF cargs.depth > 0 THEN Formatted(out.value[1], fc)
                   ELSE IF cargs.raw THEN model_dump(out.value[1], fc)
                   ELSE Formatted(out.value[1], fc))
  /\ cpc' = "convert"
  /\ UNCHANGED <<cargs, rootFetch, output_str, failure, exit_code>>
  /\ UNCHANGED travVars
  /\ UNCHANGED fetchVars

\* lines 40-43
Convert ==
  /\ cpc = "convert"
  /\ IF cargs.format = "json"
     THEN /\ output_str' = Some("json")
          /\ cpc' = "emit"
          /\ UNCHANGED <<failure, exit_code>>
     ELSE LET exc == convert_to_markdown(output_data[1]) IN
          IF exc = ""
          THEN /\ output_str' = Some("markdown")
               /\ cpc' = "emit"
               /\ UNCHANGED <<failure, exit_code>>
          ELSE /\ failure' = exc
               /\ exit_code' = Some(ExitCode(exc))
               /\ cpc' = "exited"
               /\ UNCHANGED output_str
  /\ UNCHANGED <<cargs, rootFetch, output_data>>
  /\ UNCHANGED travVars
  /\ UNCHANGED fetchVars

\* lines 46-51, then main returns; opening the --output file may fail
Emit ==
  /\ cpc = "emit"
  /\ \E opened \in IF cargs.output THEN BOOLEAN ELSE {TRUE} :
       IF opened
       THEN /\ exit_code' = Some(0)
            /\ UNCHANGED failure
       ELSE /\ failure' = "OSError"
            /\ exit_code' = Some(ExitCode("OSError"))
  /\ cpc' = "exited"
  /\ UNCHANGED <<cargs, rootFetch, output_data, output_str>>
  /\ UNCHANGED travVars
  /\ UNCHANGED fetchVars

CliNext ==
  \/ Main
  \/ RootFetchRaises
  \/ RootFetchReturns
  \/ Convert
  \/ Emit

CliSpec == Init /\ [][CliNext]_vars

\* ----------------------------------------------------- reading the result
Range(s) == {s[k] : k \in 1..Len(s)}

NoDuplicates(s) == \A j, k \in 1..Len(s) : s[j] = s[k] => j = k

\* a fresh top-level call: no visited set handed in (line 239 makes one)
FreshCall == args.visited_urls = None

Returned == pc = "returned" /\ result # None

\* the URLs of the entries with non-null content, over the whole nested
\* document, in the order the document lists them
RECURSIVE ExpandedFrom(_, _)
ExpandedFrom(doc, k) ==
  IF k > Len(doc.related_items) THEN <<>>
  ELSE LET e == doc.related_items[k] IN
       (IF e.content = None THEN <<>>
        ELSE <<e.reference.url>> \o ExpandedFrom(e.content[1], 1))
       \o ExpandedFrom(doc, k + 1)

ExpandedUrls(doc) == ExpandedFrom(doc, 1)

\* the expanded nodes of a document: the root and every entry with non-null
\* content, each with its URL, its document and the URLs above it
RECURSIVE NodesOf(_, _, _)
NodesOf(url, doc, above) ==
  {[url |-> url, doc |-> doc, above |-> above]} \cup
  UNION {NodesOf(doc.related_items[k].reference.url,
                 doc.related_items[k].content[1], Append(above, url)) :
           k \in {j \in 1..Len(doc.related_items) :
                    doc.related_items[j].content # None}}

ResultNodes == IF Returned THEN NodesOf(args.url, result[1], <<>>) ELSE {}

\* the max_depth of the call of extract_content_with_related entered for url
\* (one call per URL, see C1)
DepthsOf(url) == {c.max_depth : c \in {x \in Range(callLog) : x.url = url}}
HadDepth(url) == \E d \in DepthsOf(url) : d > 0
OutOfDepth(url) == \E d \in DepthsOf(url) : d <= 0

\* the filter as the interface states it for a non-empty list
Excluded(include_types, type) ==
  /\ include_types # None
  /\ include_types[1] # <<>>
  /\ type \notin Range(include_types[1])

\* ------------------------------------------------------------------ C1
\* C1: in the result of a fresh top-level call no URL is expanded twice: the
\* URLs of the entries with non-null content are pairwise different and none
\* is the root's URL; an entry that points back to a node above it (the cycle
\* A -> B -> A) has content null and, when its owner had depth left and the
\* entry passed the filter, carries the already-visited annotation.
C1_NoUrlExpandedTwice ==
  (Returned /\ FreshCall) =>
    /\ NoDuplicates(ExpandedUrls(result[1]))
    /\ args.url \notin Range(ExpandedUrls(result[1]))
    /\ \A n \in ResultNodes : \A k \in 1..Len(n.doc.related_items) :
         LET e == n.doc.related_items[k] IN
         e.reference.url \in Range(n.above) \cup {n.url} =>
           /\ e.content = None
           /\ (HadDepth(n.url)
                 /\ ~Excluded(args.include_types, e.reference.type)) =>
                e.reference.note = VisitedNote

\* the cycle A -> B -> A, max_depth = 5, no filter: B is expanded under A and
\* B's entry for A is the already-visited reference
C1_Witness ==
  /\ Returned /\ FreshCall
  /\ args.url = IssueUrl(1) /\ args.max_depth = 5 /\ args.include_types = None
  /\ recOf[IssueUrl(1)].related_items = <<Item("PR", PullUrl(2))>>
  /\ Len(result[1].related_items) = 1
  /\ result[1].related_items[1].content # None
  /\ result[1].related_items[1].content[1].related_items =
       <<Entry(Item("issue", IssueUrl(1)), VisitedNote, None)>>

\* the loop's record for item k of the node fetched from url, if it took it up
Takes(url, k) == {r \in Range(itemLog) : r.owner = url /\ r.k = k}

\* the call of extract_content that followed the loop's recursive call
FetchAfter(r) == fetchLog[r.fetches + 1]

\* the recursive call made for r ended in a fetch failure
FetchFailed(r) ==
  /\ r.branch = "call"
  /\ Len(fetchLog) > r.fetches
  /\ ~FetchAfter(r).ok

SameItem(e, item) == e.reference.type = item.type /\ e.reference.url = item.url

\* ------------------------------------------------------------------ C2
\* C2: every expanded node of the result lists exactly the related items of
\* the record fetched for it, one entry per item and in the record's order,
\* whatever happened to each item; while a node is being expanded, the list
\* built so far is the record's items up to the loop's position.
C2_RelatedItemsMatchRecord ==
  /\ \A n \in ResultNodes :
       /\ Len(n.doc.related_items) = Len(recOf[n.url].related_items)
       /\ \A k \in 1..Len(n.doc.related_items) :
            SameItem(n.doc.related_items[k], recOf[n.url].related_items[k])
  /\ \A d \in 1..Len(stack) :
       stack[d].at = "loop" =>
         /\ Len(stack[d].related_with_content) = stack[d].i - 1
         /\ \A k \in 1..Len(stack[d].related_with_content) :
              SameItem(stack[d].related_with_content[k],
                       stack[d].content[1].related_items[k])

\* a PR whose first item is filtered out and whose second is expanded, and
\* that one lists the root again and a commit that cannot be fetched
C2_Witness ==
  /\ Returned /\ FreshCall
  /\ Len(result[1].related_items) = 2
  /\ Excluded(args.include_types, result[1].related_items[1].reference.type)
  /\ result[1].related_items[1].content = None
  /\ result[1].related_items[2].content # None
  /\ LET sub == result[1].related_items[2].content[1].related_items IN
     /\ Len(sub) = 2
     /\ sub[1].reference.note = VisitedNote
     /\ sub[2].reference.note = ErrorNote

\* ------------------------------------------------------------------ C3
\* C3: when the recursive call for an item X of a node raises, X's entry is
\* kept with content null and the error annotation, and every later item Y of
\* the same node is still taken up by the loop: Y is fetched and attached with
\* its document when it passes the filter, was not visited and its fetch
\* succeeds, and has content null otherwise.
C3_SiblingIsolation ==
  \A n \in ResultNodes : \A x \in Range(itemLog) :
    (x.owner = n.url /\ FetchFailed(x)) =>
      /\ x.k <= Len(n.doc.related_items)
      /\ n.doc.related_items[x.k] = Entry(x.item, ErrorNote, None)
      /\ \A j \in (x.k + 1)..Len(recOf[n.url].related_items) :
           /\ j <= Len(n.doc.related_items)
           /\ \E y \in Takes(n.url, j) :
                LET e == n.doc.related_items[j] IN
                /\ y.item = recOf[n.url].related_items[j]
                /\ IF Excluded(args.include_types, y.item.type) \/ y.seen
                   THEN e.content = None /\ y.branch # "call"
                   ELSE /\ y.branch = "call"
                        /\ FetchAfter(y).url = y.item.url
                        /\ IF FetchAfter(y).ok
                           THEN /\ e.content # None
                                /\ e.content[1].type = format_for_llm(recOf[y.item.url]).type
                                /\ Len(e.content[1].related_items) =
                                     Len(recOf[y.item.url].related_items)
                           ELSE e = Entry(y.item, ErrorNote, None)

\* root R with items X and Y: X's fetch fails, Y is fetched afterwards and
\* attached with content
C3_Witness ==
  /\ Returned /\ FreshCall
  /\ Len(result[1].related_items) = 2
  /\ result[1].related_items[1].reference.note = ErrorNote
  /\ result[1].related_items[1].content = None
  /\ result[1].related_items[2].content # None
  /\ Len(result[1].related_items[2].content[1].related_items) > 0
  /\ Len(fetchLog) = 3 /\ ~fetchLog[2].ok /\ fetchLog[3].ok

\* ------------------------------------------------------------------ C4
RootFetchFailed == \E k \in 1..Len(fetchLog) : fetchLog[k].level = 0 /\ ~fetchLog[k].ok

RootFetchOk == \E k \in 1..Len(fetchLog) : fetchLog[k].level = 0 /\ fetchLog[k].ok

\* C4: the top-level call raises exactly when the fetch of the root URL has
\* failed, with that failure's exception; when the root fetch succeeded the
\* call never raises, whatever fails below, and what it returns is a document.
C4_RaisesIffRootFetchFails ==
  /\ pc = "raised" <=> RootFetchFailed
  /\ pc = "raised" =>
       /\ Len(fetchLog) = 1
       /\ fetchLog[1].url = args.url
       /\ raised = extract_content(args.url, Raises("FirecrawlError")).exc
  /\ RootFetchOk => pc # "raised"
  /\ (pc = "returned" /\ RootFetchOk) => result # None

\* the root's fetch succeeded, a fetch two levels below failed, one level
\* below another failed, and the call returned a document
C4_Witness ==
  /\ Returned /\ FreshCall
  /\ RootFetchOk
  /\ \E k \in 1..Len(fetchLog) : fetchLog[k].level = 2 /\ ~fetchLog[k].ok
  /\ \E k \in 1..Len(fetchLog) : fetchLog[k].level = 1 /\ ~fetchLog[k].ok

\* ------------------------------------------------------------------ C5
\* the four causes, read off the call's history
OwnerOutOfDepth(n) == OutOfDepth(n.url)
WasSeen(n, k) == \E r \in Takes(n.url, k) : r.seen
ItsFetchFailed(n, k) == \E r \in Takes(n.url, k) : FetchFailed(r)

\* C5: in the result, an entry of an expanded node has content null exactly
\* when its type was excluded by the filter, its URL was in visited when the
\* loop took it up, its fetch failed, or its node was called with
\* max_depth <= 0; otherwise its content is the document of the artifact the
\* entry refers to.
C5_ContentNullExactlyWhen ==
  \A n \in ResultNodes : \A k \in 1..Len(n.doc.related_items) :
    LET e == n.doc.related_items[k] IN
    /\ e.content = None <=>
         \/ Excluded(args.include_types, e.reference.type)
         \/ WasSeen(n, k)
         \/ ItsFetchFailed(n, k)
         \/ OwnerOutOfDepth(n)
    /\ e.content # None =>
         /\ e.reference.url \in DOMAIN recOf
         /\ e.content[1].type = format_for_llm(recOf[e.reference.url]).type
         /\ Len(e.content[1].related_items) = Len(recOf[e.reference.url].related_items)

\* one run shows all four causes and an entry with content: the root lists a
\* filtered item and an expanded one, which lists the root again and an item
\* whose fetch fails
C5_Witness ==
  /\ Returned /\ FreshCall /\ args.max_depth = 2
  /\ \E n \in ResultNodes : \E k \in 1..Len(n.doc.related_items) :
       /\ n.doc.related_items[k].content = None
       /\ Excluded(args.include_types, n.doc.related_items[k].reference.type)
       /\ ~OwnerOutOfDepth(n) /\ ~WasSeen(n, k)
  /\ \E n \in ResultNodes : \E k \in 1..Len(n.doc.related_items) :
       /\ n.doc.related_items[k].content = None
       /\ WasSeen(n, k) /\ ~OwnerOutOfDepth(n)
       /\ ~Excluded(args.include_types, n.doc.related_items[k].reference.type)
  /\ \E n \in ResultNodes : \E k \in 1..Len(n.doc.related_items) :
       /\ n.doc.related_items[k].content = None
       /\ ItsFetchFailed(n, k)
  /\ \E n \in ResultNodes : \E k \in 1..Len(n.doc.related_items) :
       n.doc.related_items[k].content # None

\* ------------------------------------------------------------------ C6
\* C6: a call with max_depth <= 0 on a URL not yet visited makes no recursive
\* call and returns the formatter's shell: its node in the result is
\* format_for_llm of its record, all contents null; no frame with
\* max_depth <= 0 enters the loop or has a callee; a fresh top-level call with
\* max_depth <= 0 has fetched its own URL and nothing else.
C6_NoExpansionWithoutDepth ==
  /\ \A n \in ResultNodes :
       OutOfDepth(n.url) =>
         /\ n.doc = format_for_llm(recOf[n.url])
         /\ \A k \in 1..Len(n.doc.related_items) : n.doc.related_items[k].content = None
  /\ \A d \in 1..Len(stack) :
       stack[d].max_depth <= 0 => (d = Len(stack) /\ stack[d].at # "loop")
  /\ \A k \in 1..Len(itemLog) : ~OutOfDepth(itemLog[k].owner)
  /\ (FreshCall /\ args.max_depth <= 0 /\ pc \in {"returned", "raised"}) =>
       /\ Len(fetchLog) = 1 /\ fetchLog[1].url = args.url
       /\ Len(callLog) = 1
       /\ visited_urls = {args.url}

\* max_depth = -1 on a record with two related items, not fetched
C6_Witness ==
  /\ Returned /\ FreshCall /\ args.max_depth = -1
  /\ Len(result[1].related_items) = 2
  /\ result[1] = format_for_llm(recOf[args.url])
  /\ Len(fetchLog) = 1

\* a child called with max_depth = 0 whose record has related items
C6_ChildReached ==
  /\ Returned /\ FreshCall /\ args.max_depth = 1
  /\ \E n \in ResultNodes :
       /\ n.above # <<>>
       /\ Len(n.doc.related_items) > 0
       /\ n.doc = format_for_llm(recOf[n.url])

\* ------------------------------------------------------------------ C7
\* C7: with a non-empty include_types, at every level: the loop never makes
\* the recursive call for an item whose type is not in the list, taking up
\* such an item causes no fetch, and its entry is the plain reference with
\* content null; every recursive call is for an item whose type is in the
\* list; every call of the tree works with the top-level call's filter.
C7_TypeFilter ==
  /\ \A k \in 1..Len(callLog) : callLog[k].include_types = args.include_types
  /\ \A d \in 1..Len(stack) : stack[d].include_types = args.include_types
  /\ Truthy(args.include_types) =>
       /\ \A k \in 1..Len(itemLog) :
            LET r == itemLog[k] IN
            IF r.item.type \in Range(args.include_types[1])
            THEN r.branch # "filtered"
            ELSE /\ r.branch = "filtered"
                 /\ k < Len(itemLog) => itemLog[k + 1].fetches = r.fetches
                 /\ k = Len(itemLog) => Len(fetchLog) = r.fetches
       /\ \A n \in ResultNodes : \A k \in 1..Len(n.doc.related_items) :
            LET e == n.doc.related_items[k] IN
            e.reference.type \notin Range(args.include_types[1]) =>
              e = Entry(recOf[n.url].related_items[k], NoNote, None)

\* include_types = ["issue"]: below the root an issue is expanded, and at that
\* level a PR is kept without content while the level below was reached
C7_Witness ==
  /\ Returned /\ FreshCall /\ args.include_types = Some(<<"issue">>)
  /\ \E n \in ResultNodes :
       /\ Len(n.above) = 1
       /\ \E k \in 1..Len(n.doc.related_items) :
            /\ n.doc.related_items[k].reference.type = "PR"
            /\ n.doc.related_items[k].content = None
       /\ \E k \in 1..Len(n.doc.related_items) :
            /\ n.doc.related_items[k].reference.type = "issue"
            /\ n.doc.related_items[k].content # None

\* ------------------------------------------------------------------ C8
\* extract_content accepts the URL (lines 215-224)
ValidUrl(u) == u.github /\ (u.pull \/ u.issues)

\* the URLs one reference edge away from a set of URLs, by the records fetched
Neighbours(S) ==
  {it.url : it \in UNION {Range(recOf[u].related_items) : u \in S \cap DOMAIN recOf}}

\* the URLs reachable from the root by a path of at most n reference edges
RECURSIVE Within(_)
Within(n) ==
  IF n <= 0 THEN {args.url}
  ELSE Within(n - 1) \cup Neighbours(Within(n - 1))

NoFetchFailure == \A k \in 1..Len(fetchLog) : fetchLog[k].ok

\* C8: with no filter and no fetch failure, a fresh top-level call with
\* max_depth = N has fetched every URL that a path of at most N reference edges
\* reaches from the root, and each is in the result with non-null content.
C8_DepthComplete ==
  (/\ Returned /\ FreshCall
   /\ args.include_types = None
   /\ NoFetchFailure
   /\ \A u \in Within(args.max_depth) : ValidUrl(u)) =>
    /\ Within(args.max_depth) \subseteq DOMAIN recOf
    /\ Within(args.max_depth) \subseteq {args.url} \cup Range(ExpandedUrls(result[1]))

\* ------------------------------------------------------------------ C9
\* no work is done twice: a URL is entered and fetched at most once and the
\* loop takes up each related item of a node at most once
NoRepeatedWork ==
  /\ NoDuplicates([k \in 1..Len(callLog) |-> callLog[k].url])
  /\ NoDuplicates([k \in 1..Len(fetchLog) |-> fetchLog[k].url])
  /\ NoDuplicates([k \in 1..Len(itemLog) |-> <<itemLog[k].owner, itemLog[k].k>>])

Done == pc \in {"returned", "raised"}

\* C9: a top-level call under way ends: it returns or raises (given that each
\* fetch returns or fails, the fairness of LiveSpec), on every graph the
\* records describe, cyclic ones and self-references included, for every
\* max_depth and every pattern of fetch failures; on the way no URL is entered
\* twice and no related item is taken up twice.
C9_Terminates == [](NoRepeatedWork) /\ ((pc = "running") ~> Done)

\* max_depth = 5, more than there are URLs, on a graph with a self-reference
\* and a cycle through the root, with a failed fetch below: returned
C9_Witness ==
  /\ Returned /\ FreshCall /\ args.max_depth = 5
  /\ args.url = IssueUrl(1)
  /\ Item("issue", IssueUrl(1)) \in Range(recOf[args.url].related_items)
  /\ \E u \in DOMAIN recOf :
       u # args.url /\ args.url \in {it.url : it \in Range(recOf[u].related_items)}
  /\ ~NoFetchFailure

\* ------------------------------------------------------------------- C10
AllFailed(log) == \A k \in 1..Len(log) : ~log[k].out.ok

\* C10: one call of extract_issue or extract_pr invokes the underlying
\* extraction at most max_retries + 1 times; a successful invocation is the
\* last one and its record is what the caller gets; while the loop runs the
\* caller has seen nothing; and the caller gets a FirecrawlError exactly
\* when max_retries + 1 invocations were made and all of them failed,
\* whatever their classification.
C10_TransparentRetry ==
  /\ Len(attemptLog) <= max_retries + 1
  /\ \A k \in 1..Len(attemptLog) :
       attemptLog[k].out.ok =>
         /\ k = Len(attemptLog)
         /\ fpc = "done"
         /\ outcome = Some(Ok(attemptLog[k].out.rec))
  /\ fpc = "try" =>
       /\ outcome = None
       /\ AllFailed(attemptLog)
       /\ Len(attemptLog) = attempt
       /\ Len(attemptLog) <= max_retries
  /\ (fpc = "done" /\ Dispatches(furl)) =>
       /\ Len(attemptLog) >= 1
       /\ AllFailed(attemptLog) =>
            /\ Len(attemptLog) = max_retries + 1
            /\ outcome = Some(Raises("FirecrawlError"))

\* Four failures of four different classifications, the second of them a
\* failed diff, end in one FirecrawlError.
C10_Witness ==
  /\ fpc = "done"
  /\ furl = PullUrl(2)
  /\ Len(attemptLog) = max_retries + 1
  /\ attemptLog[1].out.exc.kind = "service_error"
  /\ attemptLog[2].diff.kind = "not_ok"
  /\ attemptLog[2].out.exc.kind = "not_found"
  /\ attemptLog[3].out.exc.kind = "generic"
  /\ attemptLog[4].out.exc.kind = "rate_limit"
  /\ outcome = Some(Raises("FirecrawlError"))
  /\ sleeps = <<1, 2, 4>>

\* The third invocation is the first to succeed and its record is returned.
C10_ThirdAttemptSucceeds ==
  /\ fpc = "done"
  /\ Len(attemptLog) = 3
  /\ ~attemptLog[1].out.ok
  /\ ~attemptLog[2].out.ok
  /\ attemptLog[3].out.ok
  /\ outcome = Some(Ok(Record("issue", <<Item("issue", IssueUrl(1))>>)))

\* ------------------------------------------------------------------- C11
\* C11: for every URL without the GitHub prefix, and every URL with neither
\* a pull nor an issues segment, extract_content raises ValueError at once:
\* the decorated functions are never invoked (so neither collaborator is
\* called), nothing is retried and nothing sleeps; and for no other URL does
\* the caller get ValueError.
C11_InvalidUrlFailsFast ==
  fpc = "done" =>
    /\ (~furl.github \/ (~furl.pull /\ ~furl.issues)) =>
         /\ outcome = Some(Raises("ValueError"))
         /\ attemptLog = <<>>
         /\ sleeps = <<>>
         /\ last_exception = None
    /\ outcome = Some(Raises("ValueError")) =>
         (~furl.github \/ (~furl.pull /\ ~furl.issues))

\* A URL with a pull segment on another host was refused.
C11_Witness ==
  /\ fpc = "done"
  /\ furl = Url(FALSE, TRUE, FALSE, 6)
  /\ outcome = Some(Raises("ValueError"))
  /\ attemptLog = <<>>

\* ------------------------------------------------------------------- C12
\* The invocations in which the extraction returned usable data and the GET
\* of the diff answered with a non-success status.
DiffFailures ==
  {k \in 1..Len(attemptLog) :
     attemptLog[k].reply.kind = "data" /\ attemptLog[k].diff.kind = "not_ok"}

\* C12: when the extraction of a pull request succeeds and the GET of the
\* diff answers with a non-success status, nothing is retried (no sleep, no
\* further invocation: that invocation is the last one and the caller has its
\* answer), and the caller gets a failure that is not the FirecrawlError of a
\* failed extraction.
C12_DiffFailureNotRetried ==
  \A k \in DiffFailures :
    /\ k = Len(attemptLog)
    /\ Len(sleeps) < k
    /\ fpc = "done"
    /\ outcome # Some(Raises("FirecrawlError"))

\* The state TLC reports: the diff failed twice, the wrapper slept after
\* each, and a third invocation returned the record.
C12_RetriedAfterDiffFailure ==
  /\ fpc = "done"
  /\ furl = PullUrl(2)
  /\ DiffFailures = {1, 2}
  /\ sleeps = <<1, 2>>
  /\ Len(attemptLog) = 3
  /\ outcome = Some(Ok(attemptLog[3].out.rec))

\* ------------------------------------------------------------------- C13
\* C13: whenever the root fetch fails, at every depth setting, the driver
\* exits with 1 exactly when the failure is ValueError (the invalid-URL
\* error), with 2 exactly when it is FirecrawlError, and with 3 exactly when
\* it is any other exception; the code is never 0 then, and exit code 2 is
\* given for nothing but a FirecrawlError of the root fetch.
C13_ExitCodes ==
  /\ (cpc = "exited" /\ rootFetch # "") =>
       /\ exit_code # None
       /\ exit_code[1] \in {1, 2, 3}
       /\ exit_code[1] = 1 <=> rootFetch = "ValueError"
       /\ exit_code[1] = 2 <=> rootFetch = "FirecrawlError"
       /\ exit_code[1] = 3 <=> rootFetch \notin {"ValueError", "FirecrawlError"}
       /\ rootFetch = "ValueError" <=> ~ValidUrl(cargs.url)
       /\ output_data = None
  /\ (cpc = "exited" /\ exit_code = Some(2)) => rootFetch = "FirecrawlError"

\* With --depth 2 the root fetch of a pull request failed with
\* FirecrawlError and the driver exited with 2.
C13_Witness ==
  /\ cpc = "exited"
  /\ cargs.url = PullUrl(2)
  /\ cargs.depth = 2
  /\ rootFetch = "FirecrawlError"
  /\ exit_code = Some(2)

C13_InvalidUrlExitsOne ==
  /\ cpc = "exited"
  /\ cargs.url = CommitUrl(5)
  /\ cargs.depth = 0
  /\ exit_code = Some(1)

C13_OtherExitsThree ==
  /\ cpc = "exited"
  /\ rootFetch = "OSError"
  /\ exit_code = Some(3)

\* ------------------------------------------------------------------- C20
\* C20: when the root fetch succeeds (and the output file, if one is named,
\* can be opened), the driver renders the document and exits with 0, for
\* json and markdown, raw and formatted, issue and pull request, and every
\* depth: the renderer finds every key it reads, in the shape it reads it.
C20_RendersWithoutError ==
  (cpc = "exited" /\ rootFetch = "" /\ failure # "OSError") =>
    /\ failure = ""
    /\ output_str # None
    /\ exit_code = Some(0)

\* The state TLC reports for the formatted document of an issue rendered as
\* markdown: KeyError (no "description" key), exit code 3, nothing emitted.
C20_MarkdownFails ==
  /\ cpc = "exited"
  /\ cargs.url = IssueUrl(1)
  /\ cargs.format = "markdown"
  /\ ~cargs.raw
  /\ cargs.depth = 1
  /\ rootFetch = ""
  /\ output_data # None
  /\ failure = "KeyError"
  /\ output_str = None
  /\ exit_code = Some(3)

\* No run that asks for markdown ends with exit code 0.
C20_MarkdownNeverSucceeds ==
  (cpc = "exited" /\ cargs.format = "markdown") => exit_code # Some(0)

\* ------------------------------------------------------------------- C14
\* the URLs on which a call of extract_content_with_related was entered
Entered == {callLog[k].url : k \in 1..Len(callLog)}

RootFetches == {k \in 1..Len(fetchLog) : fetchLog[k].url = args.url}

\* C14: a top-level call made without a visited set starts from an empty
\* set: at no moment does visited_urls hold a URL this call has not entered,
\* its root is never found visited on entry, and once the call is over the
\* root has been fetched exactly once and, if the call returned, the result
\* is a document; in particular so for the second of two successive calls
\* on the same URL, whatever the first left in its set.
C14_VisitedScopedToCall ==
  (pc # "idle" /\ args.visited_urls = None) =>
    /\ visited_urls \subseteq Entered
    /\ callLog # <<>> => (callLog[1].url = args.url /\ ~callLog[1].visited)
    /\ Done => Cardinality(RootFetches) = 1
    /\ pc = "returned" => result # None

\* Both calls on issue 1 fetched it and returned a document; the first had
\* left other URLs besides the root in its set.
C14_Witness ==
  /\ earlier # <<>>
  /\ earlier[1].url = IssueUrl(1)
  /\ earlier[1].fetched
  /\ earlier[1].returned
  /\ earlier[1].left_others
  /\ pc = "returned"
  /\ args.max_depth = 1
  /\ result # None
  /\ Cardinality(RootFetches) = 1

C16_DepthBudget ==
  /\ \A k \in 1..Len(callLog) :
       callLog[k].max_depth = args.max_depth - callLog[k].level
  /\ \A d \in 1..Len(stack) : stack[d].max_depth = args.max_depth - (d - 1)
  /\ (pc # "idle" /\ args.max_depth >= 0) =>
       /\ \A k \in 1..Len(callLog) : callLog[k].level <= args.max_depth
       /\ \A k \in 1..Len(fetchLog) : fetchLog[k].level <= args.max_depth
       /\ \A n \in ResultNodes :
            /\ Len(n.above) <= args.max_depth
            /\ Len(n.above) = args.max_depth =>
                 \A k \in 1..Len(n.doc.related_items) :
                   n.doc.related_items[k] =
                     Entry(recOf[n.url].related_items[k], NoNote, None)

\* max_depth 1: the root issue's related pull request is attached with its
\* document, and that document's two related items are references only.
C16_Witness ==
  /\ Returned /\ FreshCall
  /\ args.url = IssueUrl(1) /\ args.max_depth = 1 /\ args.include_types = None
  /\ Len(result[1].related_items) = 1
  /\ result[1].related_items[1].reference.url = PullUrl(2)
  /\ result[1].related_items[1].content # None
  /\ result[1].related_items[1].content[1].type = "pull_request"
  /\ result[1].related_items[1].content[1].related_items =
       <<Entry(Item("issue", IssueUrl(3)), NoNote, None),
         Entry(Item("commit", CommitUrl(5)), NoNote, None)>>

\* ------------------------------------------------------------------- C17
\* the set the caller handed in, if any
Given == IF args.visited_urls = None THEN {} ELSE args.visited_urls[1]

\* the loop's records of the items the filter excluded
FilteredTakes == {k \in 1..Len(itemLog) : itemLog[k].branch = "filtered"}

VisitedOnlyEntered == pc # "idle" => visited_urls \subseteq Entered \cup Given

\* C17: the step that processes a reference excluded by the filter changes
\* neither visited_urls nor the fetches and calls made; and at every moment
\* visited_urls holds only URLs on which a call was entered (or which the
\* caller handed in), so a filtered reference's URL is in it only for that
\* reason.
C17_FilteredNotVisited ==
  /\ [](VisitedOnlyEntered)
  /\ [][(Len(itemLog') = Len(itemLog) + 1
           /\ itemLog'[Len(itemLog')].branch = "filtered") =>
          (/\ visited_urls' = visited_urls
           /\ fetchLog' = fetchLog
           /\ callLog' = callLog
           /\ Len(stack') = Len(stack))]_vars

\* The root's first item was filtered out and its URL is not in
\* visited_urls; the second item was expanded.
C17_Witness ==
  /\ Returned /\ FreshCall
  /\ args.include_types = Some(<<"issue">>)
  /\ Len(itemLog) >= 2
  /\ itemLog[1].branch = "filtered"
  /\ itemLog[1].item.url = PullUrl(2)
  /\ PullUrl(2) \notin visited_urls
  /\ itemLog[2].branch = "call"
  /\ itemLog[2].item.url \in visited_urls

\* ------------------------------------------------------------------- C18
\* the filter as stated for every list that is supplied, the empty one too
ExcludedBySupplied(include_types, type) ==
  /\ include_types # None
  /\ type \notin Range(include_types[1])

\* C18: whenever include_types is supplied, the empty list included, a
\* reference whose type is not a member of it is not expanded: the loop
\* takes the filter branch for it and its entry in the result has content
\* null; only include_types = None expands all kinds.
C18_SuppliedFilterRestricts ==
  /\ \A k \in 1..Len(itemLog) :
       ExcludedBySupplied(args.include_types, itemLog[k].item.type) =>
         itemLog[k].branch = "filtered"
  /\ \A n \in ResultNodes : \A k \in 1..Len(n.doc.related_items) :
       ExcludedBySupplied(args.include_types, n.doc.related_items[k].reference.type) =>
         n.doc.related_items[k].content = None

\* The state TLC reports: include_types = [] and max_depth 1, and the root's
\* related pull request was fetched and attached with its document.
C18_EmptyListExpandsAll ==
  /\ Returned /\ FreshCall
  /\ args.include_types = Some(<<>>)
  /\ args.max_depth = 1
  /\ Len(result[1].related_items) = 1
  /\ result[1].related_items[1].reference.type = "PR"
  /\ result[1].related_items[1].content # None
  /\ itemLog[1].branch = "call"

\* ------------------------------------------------------------------- C19
\* the URLs whose fetch failed, and the position of that fetch in the log
FailedFetches == {k \in 1..Len(fetchLog) : ~fetchLog[k].ok}
FailedUrls == {fetchLog[k].url : k \in FailedFetches}

\* the entries of the result that refer to url, as <<node, position>>
EntriesFor(url) ==
  {<<n, k>> \in ResultNodes \X (1..MaxRel) :
     k <= Len(n.doc.related_items) /\ n.doc.related_items[k].reference.url = url}

====
